---- MODULE Spec2Model ----
(***************************************************************************)
(* Canonical Huffman coder (huffman.c): encode(bytes) -> (header, payload)  *)
(* and decode(header, payload) -> bytes, modelled function by function.     *)
(*                                                                         *)
(* A byte is a number 0..255.  A BitMessage is a record of its backing     *)
(* bytes (data, as many as were allocated; <<>> is the NULL pointer), its  *)
(* nbits and its nbytes.  A `char` holds a byte pattern; comparisons of    *)
(* chars go through CharVal, which depends on the signedness of char in    *)
(* the build (charSigned).  Memory returned by malloc, and memory read     *)
(* outside an allocation, holds the byte `fill` (all bits 0 or all bits 1).*)
(***************************************************************************)
EXTENDS Integers, Sequences, FiniteSets, TLC

VARIABLES
    message,        \* the input of huffman_encode, a sequence of non-zero bytes
    charSigned,     \* whether plain char is signed in this build
    fill,           \* the byte found in uninitialised or foreign memory
    pc,             \* position in huffman_encode / huffman_decode
    alphabet,       \* AlphabetCode of the encoder
    queue,          \* HuffmanQueue of generate_huffman_tree
    left_node,      \* local of generate_huffman_tree
    right_node,     \* local of generate_huffman_tree
    root,           \* root of the Huffman tree
    code_buffer,    \* code buffer of generate_huffman_code
    merges,         \* number of parent nodes created so far
    encoded,        \* EncodedMessage: [header, message]
    enc_i,          \* index of the encoding loop of huffman_encode_message
    enc_status,     \* return value of huffman_encode, once it has returned
    dec_alphabet,   \* AlphabetCode of the decoder
    code_tree,      \* AlphabetCodeTree of the decoder
    dm,             \* locals of huffman_decode_message
    decoded,        \* *decoded_message: [buf, null]
    dec_status,     \* return value of huffman_decode, once it has returned
    faults,         \* memory-safety violations performed so far
    first_run,      \* what an earlier run of huffman_encode on message produced
    tree_heap       \* blocks generate_huffman_tree allocated, and the calls of free on them

vars == <<message, charSigned, fill, pc, alphabet, queue, left_node, right_node,
          root, code_buffer, merges, encoded, enc_i, enc_status, dec_alphabet,
          code_tree, dm, decoded, dec_status, faults, first_run, tree_heap>>

----------------------------------------------------------------------------
(* Bounds of the model *)

\* longest message of SpecGuard
MaxGuardLen == 2

\* most distinct symbols of an input of SpecHeader
MaxGapSyms == 5

\* most bits of the BitMessage of SpecBuffers
MaxBufferBits == 9

\* longest input message of Spec
MaxLen == 4
\* most distinct symbols of an input of SpecTree
MaxSyms == 7
\* most distinct symbols of an input of SpecCode
MaxCodeSyms == 4
\* highest frequency of a symbol of an input of SpecTree and SpecCode
MaxFreq == 3
\* SpecDecode: largest maximum code length declared by a header
MaxHeaderBits == 2
\* SpecDecode: largest per-length symbol count declared by a header
MaxHeaderCount == 2
\* SpecDecode: most symbol bytes following the counts in a header
MaxHeaderSyms == 3
\* SpecDecode: most bits of a payload
MaxPayloadBits == 3

----------------------------------------------------------------------------
(* Program constants *)

MAX_CHAR == 256
CHAR_BIT == 8
STATUS_CODE_ALLOC_FAIL == 1
STATUS_CODE_HEADER_CORRUPT == 3
\* the two status codes below are used by huffman.c but huffman.h does not
\* declare them; only their being distinct and > 0 matters
STATUS_CODE_ALPHABET_NOT_EMPTY == 5
STATUS_CODE_DECODED_MESSAGE_NOT_EMPTY == 8

Byte == 0 .. (MAX_CHAR - 1)

\* The value of a char holding byte pattern b (CharCode.c is a plain char).
CharVal(b) == IF charSigned /\ b >= 128 THEN b - MAX_CHAR ELSE b

\* (unsigned int)c for a char value v, as 16-bit halves (2^32 does not fit the
\* model checker's integers): v mod 2^32.
ToUnsignedInt(v) ==
    IF v >= 0 THEN [hi |-> v \div 65536, lo |-> v % 65536]
              ELSE [hi |-> 65535, lo |-> 65536 + v]

Max(a, b) == IF a > b THEN a ELSE b

----------------------------------------------------------------------------
(* Bit buffer *)

NullBitMessage == [data |-> <<>>, nbits |-> 0, nbytes |-> 0]

\* malloc(n): n bytes of uninitialised memory
Malloc(n) == [i \in 1 .. n |-> fill]
\* calloc(n, 1): n zero bytes
Calloc(n) == [i \in 1 .. n |-> 0]

\* bit `k` (0 = most significant) of a byte
BitOfByte(byte, k) == (byte \div (2 ^ ((CHAR_BIT - 1) - k))) % 2

SetBitOfByte(byte, k, value) ==
    LET mask == 2 ^ ((CHAR_BIT - 1) - k)
        cur  == BitOfByte(byte, k)
    IN  IF value # 0 THEN byte + (1 - cur) * mask
                     ELSE byte - cur * mask

\* data[i] of a C array held as a sequence; a read outside the allocation
\* finds the byte `fill`
ReadByte(data, i) == IF (i + 1) \in DOMAIN data THEN data[i + 1] ELSE fill

get_bit_message_value(bit_message, pos) ==
    BitOfByte(ReadByte(bit_message.data, pos \div CHAR_BIT), pos % CHAR_BIT)

\* add_one_bit_message_value without the branch that clears the bit
add_one_bit_message_value_set_only(bit_message, value) ==
    LET pos == bit_message.nbits
        i   == pos \div CHAR_BIT
    IN  [data   |-> IF (i + 1) \in DOMAIN bit_message.data /\ value # 0
                    THEN [bit_message.data EXCEPT
                            ![i + 1] = SetBitOfByte(@, pos % CHAR_BIT, 1)]
                    ELSE bit_message.data,
         nbits  |-> pos + 1,
         nbytes |-> (pos + 1) \div CHAR_BIT + 1]

add_one_bit_message_value(bit_message, value) ==
    LET pos == bit_message.nbits
        i   == pos \div CHAR_BIT
    IN  [data   |-> IF (i + 1) \in DOMAIN bit_message.data
                    THEN [bit_message.data EXCEPT
                            ![i + 1] = SetBitOfByte(@, pos % CHAR_BIT, value)]
                    ELSE bit_message.data,
         nbits  |-> pos + 1,
         nbytes |-> (pos + 1) \div CHAR_BIT + 1]

\* memcpy of src->nbytes bytes into a fresh allocation of that size
copy_bit_message(src) ==
    [data   |-> [i \in 1 .. src.nbytes |-> ReadByte(src.data, i - 1)],
     nbits  |-> src.nbits,
     nbytes |-> src.nbytes]

\* remove_one_bit_message_value that counts the full bytes only
remove_one_bit_message_value_floor(bit_message) ==
    [bit_message EXCEPT !.nbits  = bit_message.nbits - 1,
                        !.nbytes = (bit_message.nbits - 1) \div CHAR_BIT]

\* remove_one_bit_message_value that leaves the last bit in place
remove_one_bit_message_value_kept(bit_message) == bit_message

remove_one_bit_message_value(bit_message) ==
    [bit_message EXCEPT !.nbits  = bit_message.nbits - 1,
                        !.nbytes = (bit_message.nbits - 1) \div CHAR_BIT + 1]

\* the bits 0 .. nbits-1 of a BitMessage, what display_bit_message renders
display_bit_message(bit_message) ==
    [i \in 1 .. bit_message.nbits |-> get_bit_message_value(bit_message, i - 1)]

----------------------------------------------------------------------------
(* Alphabet model *)

NullAlphabet == [chars |-> <<>>, length |-> 0, allocated |-> FALSE]

\* frequencies[index] += 1 for every byte of the message, from all zero
\* count_frequencies that records the presence of a byte, not its occurrences
count_frequencies_presence(msg) ==
    [index \in Byte |-> IF \E i \in DOMAIN msg : msg[i] = index THEN 1 ELSE 0]

count_frequencies(msg) ==
    [index \in Byte |-> Cardinality({i \in DOMAIN msg : msg[i] = index})]

\* 1 when a ranks before b in (freq, char) order, -1 when after, 0 when tied
alphabet_freq_comparator(a, b) ==
    IF a.freq < b.freq THEN 1
    ELSE IF a.freq > b.freq THEN -1
    ELSE IF CharVal(a.c) < CharVal(b.c) THEN 1
    ELSE IF CharVal(a.c) > CharVal(b.c) THEN -1
    ELSE 0

\* alphabet_nbits_comparator with the order of the chars reversed
alphabet_nbits_comparator_char_desc(a, b) ==
    IF a.code.nbits > b.code.nbits THEN 1
    ELSE IF a.code.nbits < b.code.nbits THEN -1
    ELSE IF CharVal(a.c) < CharVal(b.c) THEN 1
    ELSE IF CharVal(a.c) > CharVal(b.c) THEN -1
    ELSE 0

\* 1 when a sorts after b in (code length, char) order, -1 when before
alphabet_nbits_comparator(a, b) ==
    IF a.code.nbits > b.code.nbits THEN 1
    ELSE IF a.code.nbits < b.code.nbits THEN -1
    ELSE IF CharVal(a.c) > CharVal(b.c) THEN 1
    ELSE IF CharVal(a.c) < CharVal(b.c) THEN -1
    ELSE 0

\* the call of the comparator qsort was given, a function pointer
CallComparator(compar, a, b) ==
    IF compar = "alphabet_freq_comparator" THEN alphabet_freq_comparator(a, b)
    ELSE alphabet_nbits_comparator(a, b)

\* qsort(base, n, size, compar): ascending for compar (x before y when
\* compar(x, y) < 0).  Both comparators order entries of distinct chars
\* strictly, so the result does not depend on the sorting algorithm.
RECURSIVE InsertSorted(_, _, _)
InsertSorted(compar, s, x) ==
    IF s = <<>> THEN <<x>>
    ELSE IF CallComparator(compar, x, s[1]) < 0 THEN <<x>> \o s
    ELSE <<s[1]>> \o InsertSorted(compar, Tail(s), x)

RECURSIVE qsort(_, _)
qsort(compar, s) ==
    IF s = <<>> THEN <<>>
    ELSE InsertSorted(compar, qsort(compar, Tail(s)), s[1])

\* the entries of build_alphabet before sorting: one per byte i >= from with
\* frequencies[i] > 0, in increasing order of i
RECURSIVE CollectChars(_, _)
CollectChars(frequencies, from) ==
    LET present == {i \in from .. (MAX_CHAR - 1) : frequencies[i] > 0}
    IN  IF present = {} THEN <<>>
        ELSE LET i == CHOOSE x \in present : \A y \in present : x <= y
             IN  <<[c |-> i, freq |-> frequencies[i], code |-> NullBitMessage]>>
                 \o CollectChars(frequencies, i + 1)

\* build_alphabet without its test of alphabet->chars
build_alphabet_unguarded(msg, alpha) ==
    LET frequencies == count_frequencies(msg)
        chars       == CollectChars(frequencies, 0)
    IN  [status   |-> 0,
         alphabet |-> [chars     |-> qsort("alphabet_freq_comparator", chars),
                       length    |-> Len(chars),
                       allocated |-> TRUE]]

\* returns [status, alphabet]
build_alphabet(msg, alpha) ==
    IF alpha.allocated
    THEN [status |-> STATUS_CODE_ALPHABET_NOT_EMPTY, alphabet |-> alpha]
    ELSE LET frequencies == count_frequencies(msg)
             chars       == CollectChars(frequencies, 0)
         IN  [status   |-> 0,
              alphabet |-> [chars     |-> qsort("alphabet_freq_comparator", chars),
                            length    |-> Len(chars),
                            allocated |-> TRUE]]

----------------------------------------------------------------------------
(* Tree builder *)

\* the NULL HuffmanNode pointer
Nil == [nil |-> TRUE]

\* A leaf's data points at alphabet->chars[idx]; c and freq are what it reads
\* there (they do not change during the tree build).
create_huffman_node(char_code, idx) ==
    [nil |-> FALSE, data |-> [c |-> char_code.c, freq |-> char_code.freq],
     idx |-> idx, left |-> Nil, right |-> Nil]

\* create_parent_huffman_node with the two children exchanged
create_parent_huffman_node_swapped(left, right) ==
    [nil |-> FALSE, data |-> [c |-> 0, freq |-> left.data.freq + right.data.freq],
     idx |-> 0, left |-> right, right |-> left]

\* A parent owns its data: c = '\0' and the sum of the children's frequencies.
create_parent_huffman_node(left, right) ==
    [nil |-> FALSE, data |-> [c |-> 0, freq |-> left.data.freq + right.data.freq],
     idx |-> 0, left |-> left, right |-> right]

\* calloc(2 * n, sizeof(HuffmanNode *))
NewQueue(n) == [queue |-> [i \in 1 .. 2 * n |-> Nil], count |-> 0, capacity |-> 2 * n]

FreedQueue == [queue |-> <<>>, count |-> 0, capacity |-> 0]

\* the sift-up loop of append_huffman_queue; arr is 1-based, current_index 0-based
RECURSIVE SiftUp(_, _, _)
SiftUp(arr, current_index, node) ==
    IF current_index = 0 THEN arr
    ELSE LET parent_index == (current_index - 1) \div 2
             parent_node  == arr[parent_index + 1]
         IN  IF \/ parent_node.data.freq > node.data.freq
                \/ /\ parent_node.data.c # 0
                   /\ node.data.c # 0
                   /\ parent_node.data.freq = node.data.freq
                   /\ CharVal(parent_node.data.c) > CharVal(node.data.c)
             THEN SiftUp([arr EXCEPT ![parent_index + 1] = node,
                                     ![current_index + 1] = parent_node],
                         parent_index, node)
             ELSE arr

append_huffman_queue(q, node) ==
    LET count    == q.count + 1
        grow     == count >= q.capacity
        capacity == IF grow THEN 2 * q.capacity ELSE q.capacity
        \* realloc keeps the old slots; the new ones are not initialised
        arr      == IF grow
                    THEN [i \in 1 .. capacity |->
                            IF i \in DOMAIN q.queue THEN q.queue[i] ELSE Nil]
                    ELSE q.queue
    IN  [queue    |-> SiftUp([arr EXCEPT ![count] = node], count - 1, node),
         count    |-> count,
         capacity |-> capacity]

\* the sift-down loop of pop_min_freq_huffman_queue
RECURSIVE SiftDown(_, _, _)
SiftDown(arr, count, current_index) ==
    IF current_index >= count THEN arr
    ELSE LET current_node == arr[current_index + 1]
             left_index   == 2 * current_index + 1
             right_index  == 2 * current_index + 2
             left         == IF left_index < count THEN arr[left_index + 1] ELSE Nil
             right        == IF right_index < count THEN arr[right_index + 1] ELSE Nil
         IN  IF /\ left # Nil
                /\ (right = Nil \/ alphabet_freq_comparator(left.data, right.data) = 1)
                /\ alphabet_freq_comparator(left.data, current_node.data) = 1
             THEN SiftDown([arr EXCEPT ![left_index + 1] = current_node,
                                       ![current_index + 1] = left],
                           count, left_index)
             ELSE IF /\ right # Nil
                     /\ (left = Nil \/ alphabet_freq_comparator(right.data, left.data) = 1)
                     /\ alphabet_freq_comparator(right.data, current_node.data) = 1
             THEN SiftDown([arr EXCEPT ![right_index + 1] = current_node,
                                       ![current_index + 1] = right],
                           count, right_index)
             ELSE arr

\* returns the popped node and the queue it leaves; the slot count-1 keeps its
\* (now stale) pointer
pop_min_freq_huffman_queue(q) ==
    LET min_node == q.queue[1]
        moved    == [q.queue EXCEPT ![1] = q.queue[q.count]]
        count    == q.count - 1
    IN  [min_node |-> min_node,
         queue    |-> [queue    |-> SiftDown(moved, count, 0),
                       count    |-> count,
                       capacity |-> q.capacity]]

----------------------------------------------------------------------------
(* The memory of generate_huffman_tree *)

\* A block is a HuffmanNode, the CharCode a parent owns, or the array of the
\* queue.  A node is told from every other by its value: leaves differ in idx,
\* parents in their children.
NodeBlock(node) == [kind |-> "node", of |-> node]

DataBlock(node) == [kind |-> "data", of |-> node]

QueueBlock == [kind |-> "queue", of |-> Nil]

\* allocated: the blocks malloc and calloc returned; freed: the arguments of
\* the calls of free, in order
EmptyHeap == [allocated |-> {}, freed |-> <<>>]

Allocate(heap, block) == [heap EXCEPT !.allocated = @ \cup {block}]

free(heap, block) == [heap EXCEPT !.freed = Append(@, block)]

TimesFreed(heap, block) ==
    Cardinality({i \in DOMAIN heap.freed : heap.freed[i] = block})

\* free_huffman_node that frees the data of every node, leaves included
RECURSIVE free_huffman_node_with_data(_, _)
free_huffman_node_with_data(node, heap) ==
    IF node = Nil THEN heap
    ELSE LET node_freed == free(free(heap, DataBlock(node)), NodeBlock(node))
         IN  free_huffman_node_with_data(node.right,
                 free_huffman_node_with_data(node.left, node_freed))

\* A node reached a second time (through a stale slot of the queue) is read
\* after its release.  The function set its left and right to NULL, and the
\* data of a parent too, before free(node); where the allocator left these
\* fields alone the second visit finds a childless node and frees it again.
RECURSIVE free_huffman_node(_, _)
free_huffman_node(node, heap) ==
    IF node = Nil THEN heap
    ELSE IF TimesFreed(heap, NodeBlock(node)) > 0
    THEN free(heap, NodeBlock(node))
    ELSE LET data_freed == IF node.left # Nil \/ node.right # Nil
                           THEN free(heap, DataBlock(node))
                           ELSE heap
             node_freed == free(data_freed, NodeBlock(node))
         IN  free_huffman_node(node.right, free_huffman_node(node.left, node_freed))

\* the loop of free_huffman_queue_and_content over all capacity slots, from
\* the 0-based slot i
RECURSIVE FreeSlots(_, _, _)
FreeSlots(q, i, heap) ==
    IF i >= q.capacity THEN heap
    ELSE FreeSlots(q, i + 1, free_huffman_node(q.queue[i + 1], heap))

free_huffman_queue(heap) == free(heap, QueueBlock)

free_huffman_queue_and_content(q, heap) == free_huffman_queue(FreeSlots(q, 0, heap))

\* the index of the first call of free on a block already freed, 0 if none
FirstDoubleFree(freed) ==
    LET repeats == {i \in DOMAIN freed : \E j \in 1 .. (i - 1) : freed[j] = freed[i]}
    IN  IF repeats = {} THEN 0
        ELSE CHOOSE i \in repeats : \A k \in repeats : i <= k

----------------------------------------------------------------------------
(* Code generator and canonicaliser *)

\* st = [chars, buf]: the alphabet entries (written through the leaves' data
\* pointers) and the shared code buffer
RECURSIVE _generate_huffman_code(_, _)
_generate_huffman_code(node, st) ==
    IF node = Nil THEN st
    ELSE IF node.left = Nil /\ node.right = Nil
    THEN LET buf == IF st.buf.nbits = 0
                    THEN add_one_bit_message_value(st.buf, 0)
                    ELSE st.buf
         IN  [chars |-> [st.chars EXCEPT ![node.idx].code = copy_bit_message(buf)],
              buf   |-> buf]
    ELSE LET l0 == IF node.left # Nil
                   THEN LET sub == _generate_huffman_code(node.left,
                                       [st EXCEPT !.buf = add_one_bit_message_value(st.buf, 0)])
                        IN  [sub EXCEPT !.buf = remove_one_bit_message_value(sub.buf)]
                   ELSE st
         IN  IF node.right # Nil
             THEN LET sub == _generate_huffman_code(node.right,
                                 [l0 EXCEPT !.buf = add_one_bit_message_value(l0.buf, 1)])
                  IN  [sub EXCEPT !.buf = remove_one_bit_message_value(sub.buf)]
             ELSE l0

\* data with the nbits bits of current_code written most significant first
\* over zeroed bytes (bit j is (current_code >> (nbits - 1 - j)) & 1)
RECURSIVE WriteCodeBits(_, _, _, _)
WriteCodeBits(data, nbits, current_code, j) ==
    IF j >= nbits THEN data
    ELSE LET bit_value == (current_code \div (2 ^ (nbits - 1 - j))) % 2
             i         == j \div CHAR_BIT
         IN  WriteCodeBits(
                 IF bit_value # 0 /\ (i + 1) \in DOMAIN data
                 THEN [data EXCEPT ![i + 1] = SetBitOfByte(@, j % CHAR_BIT, 1)]
                 ELSE data,
                 nbits, current_code, j + 1)

\* the loop of transform_to_canonical_code without the shift of current_code
\* at a longer code
RECURSIVE CanonicalLoopNoShift(_, _, _, _)
CanonicalLoopNoShift(chars, i, current_code, prev_nbits) ==
    IF i > Len(chars) THEN chars
    ELSE LET nbits  == chars[i].code.nbits
             zeroed == [k \in DOMAIN chars[i].code.data |->
                           IF k <= chars[i].code.nbytes THEN 0
                           ELSE chars[i].code.data[k]]
         IN  CanonicalLoopNoShift(
                 [chars EXCEPT ![i].code.data = WriteCodeBits(zeroed, nbits, current_code, 0)],
                 i + 1, current_code + 1, Max(nbits, prev_nbits))

\* the loop of transform_to_canonical_code from entry i (1-based) on.
\* current_code is a uint64_t; code lengths stay far below 64 here.
RECURSIVE CanonicalLoop(_, _, _, _)
CanonicalLoop(chars, i, current_code, prev_nbits) ==
    IF i > Len(chars) THEN chars
    ELSE LET nbits   == chars[i].code.nbits
             nbytes  == chars[i].code.nbytes
             zeroed  == [k \in DOMAIN chars[i].code.data |->
                            IF k <= nbytes THEN 0 ELSE chars[i].code.data[k]]
             shifted == IF nbits > prev_nbits
                        THEN current_code * (2 ^ (nbits - prev_nbits))
                        ELSE current_code
         IN  CanonicalLoop(
                 [chars EXCEPT ![i].code.data = WriteCodeBits(zeroed, nbits, shifted, 0)],
                 i + 1, shifted + 1, Max(nbits, prev_nbits))

transform_to_canonical_code(chars) ==
    IF Len(chars) = 0 THEN chars
    ELSE CanonicalLoop(chars, 1, 0, chars[1].code.nbits)

----------------------------------------------------------------------------
(* Header codec, encode side *)

\* the loop of huffman_encode_alphabet from entry i (1-based) on
RECURSIVE EncodeAlphabetLoop(_, _, _, _, _)
EncodeAlphabetLoop(chars, i, current_idx, data, max_nbits) ==
    IF i > Len(chars) THEN data
    ELSE LET idx == Max(current_idx, chars[i].code.nbits)
             d1  == IF (idx + 1) \in DOMAIN data
                    THEN [data EXCEPT ![idx + 1] = (@ + 1) % MAX_CHAR]
                    ELSE data
             at  == max_nbits + 1 + (i - 1)
             d2  == IF (at + 1) \in DOMAIN d1
                    THEN [d1 EXCEPT ![at + 1] = chars[i].c]
                    ELSE d1
         IN  EncodeAlphabetLoop(chars, i + 1, idx, d2, max_nbits)

\* huffman_encode_alphabet with a header one byte short (no byte for L)
huffman_encode_alphabet_short(alpha) ==
    LET max_nbits   == alpha.chars[alpha.length].code.nbits
        header_size == max_nbits + alpha.length
        data        == [Calloc(header_size) EXCEPT ![1] = max_nbits % MAX_CHAR]
    IN  [data   |-> EncodeAlphabetLoop(alpha.chars, 1, 1, data, max_nbits),
         nbits  |-> header_size * CHAR_BIT,
         nbytes |-> header_size]

huffman_encode_alphabet(alpha) ==
    LET max_nbits   == alpha.chars[alpha.length].code.nbits
        header_size == max_nbits + 1 + alpha.length
        data        == [Calloc(header_size) EXCEPT ![1] = max_nbits % MAX_CHAR]
    IN  [data   |-> EncodeAlphabetLoop(alpha.chars, 1, 1, data, max_nbits),
         nbits  |-> header_size * CHAR_BIT,
         nbytes |-> header_size]

----------------------------------------------------------------------------
(* Message codec, encode side *)

\* the index of lookup_alphabet used for char c: (unsigned int)c
LookupIndex(c) == ToUnsignedInt(CharVal(c))

InLookupTable(index) == index.hi = 0 /\ index.lo < MAX_CHAR

\* lookup_alphabet[k] after the fill loop: the last alphabet entry stored at
\* k, as its 1-based position; 0 is NULL
lookup_alphabet(chars, k) ==
    LET at == {i \in 1 .. Len(chars) : LookupIndex(chars[i].c) = [hi |-> 0, lo |-> k]}
    IN  IF at = {} THEN 0 ELSE CHOOSE i \in at : \A j \in at : j <= i

\* the size count of huffman_encode_message
RECURSIVE PayloadCapacity(_, _)
PayloadCapacity(msg, chars) ==
    IF msg = <<>> THEN 0
    ELSE LET hit == {j \in 1 .. Len(chars) : chars[j].c = msg[1]}
             RECURSIVE SumBits(_)
             SumBits(S) == IF S = {} THEN 0
                           ELSE LET j == CHOOSE x \in S : TRUE
                                IN  chars[j].code.nbits + SumBits(S \ {j})
         IN  SumBits(hit) + PayloadCapacity(Tail(msg), chars)

RECURSIVE AppendCode(_, _, _)
AppendCode(bit_message, code, k) ==
    IF k >= code.nbits THEN bit_message
    ELSE AppendCode(add_one_bit_message_value(bit_message, get_bit_message_value(code, k)),
                    code, k + 1)

\* the body of the encoding loop for character c: the bits of its code are
\* appended to the payload
EncodeChar(chars, c, bit_message) ==
    LET char_code == chars[lookup_alphabet(chars, LookupIndex(c).lo)]
    IN  AppendCode(bit_message, char_code.code, 0)

\* TRUE when filling or reading lookup_alphabet leaves the 256-entry table
LookupOutOfBounds(msg, chars) ==
    \/ \E i \in 1 .. Len(chars) : ~InLookupTable(LookupIndex(chars[i].c))
    \/ \E i \in 1 .. Len(msg) : ~InLookupTable(LookupIndex(msg[i]))

\* a payload buffer of capacity / CHAR_BIT bytes, without the spare byte
NewPayloadNoSpare(msg, alpha) ==
    [data   |-> Malloc(PayloadCapacity(msg, alpha.chars) \div CHAR_BIT),
     nbits  |-> 0,
     nbytes |-> 0]

\* the payload buffer huffman_encode_message allocates
NewPayload(msg, alpha) ==
    [data   |-> Malloc(PayloadCapacity(msg, alpha.chars) \div CHAR_BIT + 1),
     nbits  |-> 0,
     nbytes |-> 0]

----------------------------------------------------------------------------
(* Header codec, decode side *)

RECURSIVE SumCounts(_, _)
SumCounts(header, i) ==
    IF i < 1 THEN 0 ELSE ReadByte(header.data, i) + SumCounts(header, i - 1)

\* the inner loop of huffman_decode_alphabet for code length nbits: st =
\* [chars, current_header_idx, current_code, oob]
RECURSIVE DecodeAlphabetChars(_, _, _, _)
DecodeAlphabetChars(header, nbits, nchars, st) ==
    IF nchars = 0 THEN st
    ELSE LET nbytes == nbits \div CHAR_BIT + 1
             entry  == [c    |-> ReadByte(header.data, st.current_header_idx),
                        freq |-> 0,
                        code |-> [data   |-> WriteCodeBits(Calloc(nbytes), nbits,
                                                           st.current_code, 0),
                                  nbits  |-> nbits,
                                  nbytes |-> nbytes]]
         IN  DecodeAlphabetChars(header, nbits, nchars - 1,
                 [chars              |-> Append(st.chars, entry),
                  current_header_idx |-> st.current_header_idx + 1,
                  current_code       |-> st.current_code + 1,
                  oob                |-> st.oob \/ st.current_header_idx >= header.nbytes])

\* the outer loop without the shift of current_code between code lengths
RECURSIVE DecodeAlphabetLoopNoShift(_, _, _, _)
DecodeAlphabetLoopNoShift(header, i, max_nbits, st) ==
    IF i >= max_nbits + 1 THEN st
    ELSE DecodeAlphabetLoopNoShift(header, i + 1, max_nbits,
             DecodeAlphabetChars(header, i, ReadByte(header.data, i), st))

\* the outer loop of huffman_decode_alphabet, code lengths i .. max_nbits
RECURSIVE DecodeAlphabetLoop(_, _, _, _)
DecodeAlphabetLoop(header, i, max_nbits, st) ==
    IF i >= max_nbits + 1 THEN st
    ELSE LET done == DecodeAlphabetChars(header, i, ReadByte(header.data, i), st)
         IN  DecodeAlphabetLoop(header, i + 1, max_nbits,
                                [done EXCEPT !.current_code = 2 * done.current_code])

\* a huffman_decode_alphabet that refuses every header, the empty one included
huffman_decode_alphabet_refuses(header, alpha) ==
    [status |-> STATUS_CODE_HEADER_CORRUPT, alphabet |-> alpha, oob |-> FALSE]

\* returns [status, alphabet, oob]: oob when a header byte at an index >=
\* header nbytes was read
huffman_decode_alphabet(header, alpha) ==
    IF alpha.allocated
    THEN [status |-> STATUS_CODE_ALPHABET_NOT_EMPTY, alphabet |-> alpha, oob |-> FALSE]
    ELSE IF header.nbytes > 0 /\ header.nbytes > ReadByte(header.data, 0) + 1
    THEN LET max_nbits == ReadByte(header.data, 0)
             length    == SumCounts(header, max_nbits)
             st        == DecodeAlphabetLoop(header, 1, max_nbits,
                              [chars |-> <<>>, current_header_idx |-> max_nbits + 1,
                               current_code |-> 0, oob |-> FALSE])
         IN  [status   |-> 0,
              alphabet |-> [chars |-> st.chars, length |-> length, allocated |-> TRUE],
              oob      |-> st.oob]
    ELSE [status |-> 0, alphabet |-> alpha, oob |-> FALSE]

----------------------------------------------------------------------------
(* Message codec, decode side *)

NullCodeTree == [tree |-> <<>>, length |-> 0, min_nbits |-> 0, allocated |-> FALSE]

\* pos = 2 * pos + 1 + bit over the first j bits of a code
RECURSIVE CodePos(_, _)
CodePos(code, j) ==
    IF j = 0 THEN 0
    ELSE 2 * CodePos(code, j - 1) + 1 + get_bit_message_value(code, j - 1)

\* the fill loop of create_alphabet_code_tree from entry i on; a slot holds
\* the 1-based position of its entry in the alphabet, 0 is NULL
RECURSIVE FillCodeTree(_, _, _)
FillCodeTree(chars, i, tree) ==
    IF i > Len(chars) THEN tree
    ELSE LET pos == CodePos(chars[i].code, chars[i].code.nbits)
         IN  FillCodeTree(chars, i + 1,
                          IF (pos + 1) \in DOMAIN tree
                          THEN [tree EXCEPT ![pos + 1] = i]
                          ELSE tree)

\* create_alphabet_code_tree with an array one level short: 2^max_nbits - 1 slots
create_alphabet_code_tree_short(alpha) ==
    LET min_nbits == IF alpha.length > 0 THEN alpha.chars[1].code.nbits ELSE 0
        max_nbits == IF alpha.length > 0 THEN alpha.chars[alpha.length].code.nbits ELSE 0
        length    == 2 ^ max_nbits - 1
    IN  [tree      |-> FillCodeTree(alpha.chars, 1, [i \in 1 .. length |-> 0]),
         length    |-> length,
         min_nbits |-> min_nbits,
         allocated |-> TRUE]

create_alphabet_code_tree(alpha) ==
    LET min_nbits == IF alpha.length > 0 THEN alpha.chars[1].code.nbits ELSE 0
        max_nbits == IF alpha.length > 0 THEN alpha.chars[alpha.length].code.nbits ELSE 0
        length    == 2 ^ (max_nbits + 1) - 1
    IN  [tree      |-> FillCodeTree(alpha.chars, 1, [i \in 1 .. length |-> 0]),
         length    |-> length,
         min_nbits |-> min_nbits,
         allocated |-> TRUE]

\* alphabet_code_tree->tree[pos] as huffman_decode_message reads it: a slot
\* outside the array holds foreign memory, NULL when that memory is zero and a
\* wild pointer (-1 here) otherwise
ReadSlot(ct, pos) ==
    IF (pos + 1) \in DOMAIN ct.tree THEN ct.tree[pos + 1]
    ELSE IF fill = 0 THEN 0 ELSE -1

NullDecoded == [data |-> <<>>, capacity |-> 0, null |-> TRUE]

\* (*decoded_message)[i] = byte; a write at i >= capacity lands behind the
\* allocation (data then records that memory too)
WriteDecoded(d, i, byte) ==
    [d EXCEPT !.data = [k \in 1 .. Max(Len(d.data), i + 1) |->
                          IF k = i + 1 THEN byte
                          ELSE IF k \in DOMAIN d.data THEN d.data[k] ELSE fill]]

\* realloc(*decoded_message, capacity) for capacity > 0
ReallocDecoded(d, capacity) ==
    [d EXCEPT !.data = [k \in 1 .. Max(Len(d.data), capacity) |->
                          IF k \in DOMAIN d.data THEN d.data[k] ELSE fill],
              !.capacity = capacity]

\* the C string at *decoded_message: the bytes before the first '\0'
RECURSIVE CString(_)
CString(data) ==
    IF data = <<>> \/ data[1] = 0 THEN <<>>
    ELSE <<data[1]>> \o CString(Tail(data))

----------------------------------------------------------------------------
(* Inputs *)

\* the bytes of the messages of Spec; 200 is a char below zero when char is signed
Bytes == {97, 98, 200}

RECURSIVE SeqsUpTo(_, _)
SeqsUpTo(S, n) ==
    IF n = 0 THEN {<<>>}
    ELSE LET shorter == SeqsUpTo(S, n - 1)
         IN  shorter \cup {Append(s, x) : s \in {t \in shorter : Len(t) = n - 1}, x \in S}

\* the i-th symbol of the inputs of SpecCode and SpecDecode: 'a', 200, 'b', 'c', ...
Sym(i) == IF i = 1 THEN 97 ELSE IF i = 2 THEN 200 ELSE 95 + i

\* the message Sym(1)^f[1] Sym(2)^f[2] ... Sym(n)^f[n]
RECURSIVE RunMessage(_, _)
RunMessage(f, n) ==
    IF n = 0 THEN <<>>
    ELSE RunMessage(f, n - 1) \o [k \in 1 .. f[n] |-> Sym(n)]

\* a payload as an encoder leaves it: the bits appended to a malloc'ed buffer
RECURSIVE AppendBits(_, _, _)
AppendBits(bit_message, bits, i) ==
    IF i > Len(bits) THEN bit_message
    ELSE AppendBits(add_one_bit_message_value(bit_message, bits[i]), bits, i + 1)

PayloadOf(bits) ==
    AppendBits([data |-> Malloc(Len(bits) \div CHAR_BIT + 1), nbits |-> 0, nbytes |-> 0],
               bits, 1)

\* a header BitMessage holding the given bytes
HeaderOf(bytes) ==
    IF bytes = <<>> THEN NullBitMessage
    ELSE [data |-> bytes, nbits |-> Len(bytes) * CHAR_BIT, nbytes |-> Len(bytes)]

\* headers, well formed or not: any prefix of L, count[1..L], symbols
HeaderBytes ==
    UNION {
        UNION {
            UNION { { SubSeq(<<L>> \o counts \o [i \in 1 .. nsym |-> Sym(i)], 1, take) :
                        take \in 0 .. (1 + L + nsym) } :
                    nsym \in 0 .. MaxHeaderSyms } :
            counts \in [1 .. L -> 0 .. MaxHeaderCount] } :
        L \in 0 .. MaxHeaderBits }

InitCommon ==
    /\ alphabet = NullAlphabet
    /\ queue = FreedQueue
    /\ left_node = Nil
    /\ right_node = Nil
    /\ root = Nil
    /\ code_buffer = NullBitMessage
    /\ merges = 0
    /\ enc_i = 0
    /\ enc_status = 0
    /\ dec_alphabet = NullAlphabet
    /\ code_tree = NullCodeTree
    /\ dm = [capacity |-> 0, start |-> 0, current_idx |-> 0, k |-> 0, pos |-> 0]
    /\ decoded = NullDecoded
    /\ dec_status = 0
    /\ faults = {}
    /\ first_run = [done |-> FALSE, header |-> NullBitMessage,
                    message |-> NullBitMessage]
    /\ tree_heap = EmptyHeap

\* huffman_encode is about to run on any message of up to MaxLen bytes
Init ==
    /\ message \in SeqsUpTo(Bytes, MaxLen)
    /\ charSigned \in BOOLEAN
    /\ fill \in {0, 255}
    /\ pc = "start"
    /\ encoded = [header |-> NullBitMessage, message |-> NullBitMessage]
    /\ InitCommon

\* huffman_encode is about to run on a message of up to MaxSyms distinct
\* symbols, each occurring up to MaxFreq times.  The tree build and the code
\* generation never read a byte they have not written, so fill is of no
\* consequence here.
InitTree ==
    /\ \E n \in 1 .. MaxSyms : \E f \in [1 .. n -> 1 .. MaxFreq] :
          message = RunMessage(f, n)
    /\ charSigned \in BOOLEAN
    /\ fill = 0
    /\ pc = "start"
    /\ encoded = [header |-> NullBitMessage, message |-> NullBitMessage]
    /\ InitCommon

\* huffman_encode is about to run on a message of up to MaxCodeSyms distinct
\* symbols, each occurring up to MaxFreq times
InitCode ==
    /\ \E n \in 1 .. MaxCodeSyms : \E f \in [1 .. n -> 1 .. MaxFreq] :
          message = RunMessage(f, n)
    /\ charSigned \in BOOLEAN
    /\ fill \in {0, 255}
    /\ pc = "start"
    /\ encoded = [header |-> NullBitMessage, message |-> NullBitMessage]
    /\ InitCommon

\* huffman_encode is about to run on a message of up to MaxGapSyms distinct
\* symbols, each occurring once or MaxFreq times: with five symbols and one of
\* them frequent the code lengths are 1 and 3, none is 2
InitHeader ==
    /\ \E n \in 1 .. MaxGapSyms : \E f \in [1 .. n -> {1, MaxFreq}] :
          message = RunMessage(f, n)
    /\ charSigned \in BOOLEAN
    /\ fill \in {0, 255}
    /\ pc = "start"
    /\ encoded = [header |-> NullBitMessage, message |-> NullBitMessage]
    /\ InitCommon

\* huffman_decode is about to run on any header and payload, corrupt or not.
\* The decoder never compares chars, so the signedness of char is of no
\* consequence here.
InitDecode ==
    /\ message = <<>>
    /\ charSigned = TRUE
    /\ fill \in {0, 255}
    /\ pc = "encoded"
    /\ \E h \in HeaderBytes : \E bits \in SeqsUpTo({0, 1}, MaxPayloadBits) :
          encoded = [header |-> HeaderOf(h), message |-> PayloadOf(bits)]
    /\ InitCommon

\* the buffer "hi" a caller of huffman_decode already holds in *decoded_message
CallerBuffer == [data |-> <<104, 105, 0>>, capacity |-> 3, null |-> FALSE]

\* huffman_decode is about to run on any header and payload with an output
\* pointer that is NULL or points to the caller's buffer
InitDecodeInto ==
    /\ message = <<>>
    /\ charSigned = TRUE
    /\ fill \in {0, 255}
    /\ pc = "encoded"
    /\ \E h \in HeaderBytes : \E bits \in SeqsUpTo({0, 1}, MaxPayloadBits) :
          encoded = [header |-> HeaderOf(h), message |-> PayloadOf(bits)]
    /\ decoded \in {NullDecoded, CallerBuffer}
    /\ alphabet = NullAlphabet
    /\ tree_heap = EmptyHeap
    /\ dec_alphabet = NullAlphabet
    /\ code_buffer = NullBitMessage
    /\ queue = FreedQueue
    /\ left_node = Nil
    /\ right_node = Nil
    /\ root = Nil
    /\ merges = 0
    /\ enc_i = 0
    /\ enc_status = 0
    /\ code_tree = NullCodeTree
    /\ dm = [capacity |-> 0, start |-> 0, current_idx |-> 0, k |-> 0, pos |-> 0]
    /\ dec_status = 0
    /\ faults = {}
    /\ first_run = [done |-> FALSE, header |-> NullBitMessage,
                    message |-> NullBitMessage]

\* a caller holds an AlphabetCode, empty or populated by an earlier
\* build_alphabet, and is about to hand it to build_alphabet or to
\* huffman_decode_alphabet
InitGuard ==
    /\ message \in SeqsUpTo(Bytes, MaxGuardLen)
    /\ charSigned \in BOOLEAN
    /\ fill = 0
    /\ pc = "guard"
    /\ \E h \in {<<>>, <<1, 1, 97>>, <<1, 2, 97, 98>>} :
          encoded = [header |-> HeaderOf(h), message |-> NullBitMessage]
    /\ tree_heap = EmptyHeap
    /\ \E m0 \in SeqsUpTo(Bytes, MaxGuardLen) :
          alphabet \in {NullAlphabet, build_alphabet(m0, NullAlphabet).alphabet}
    /\ dec_alphabet = alphabet
    /\ queue = FreedQueue
    /\ left_node = Nil
    /\ right_node = Nil
    /\ root = Nil
    /\ code_buffer = NullBitMessage
    /\ merges = 0
    /\ enc_i = 0
    /\ enc_status = 0
    /\ code_tree = NullCodeTree
    /\ dm = [capacity |-> 0, start |-> 0, current_idx |-> 0, k |-> 0, pos |-> 0]
    /\ decoded = NullDecoded
    /\ dec_status = 0
    /\ faults = {}
    /\ first_run = [done |-> FALSE, header |-> NullBitMessage,
                    message |-> NullBitMessage]

\* a caller holds an empty BitMessage over an allocation that has room for
\* MaxBufferBits bits, and a CharCode whose code is not yet set
InitBits ==
    /\ message = <<97>>
    /\ charSigned \in BOOLEAN
    /\ fill \in {0, 255}
    /\ pc = "bits"
    /\ encoded = [header |-> NullBitMessage, message |-> NullBitMessage]
    /\ alphabet = build_alphabet(message, NullAlphabet).alphabet
    /\ code_buffer = [data   |-> Malloc(MaxBufferBits \div CHAR_BIT + 1),
                      nbits  |-> 0,
                      nbytes |-> 0]
    /\ tree_heap = EmptyHeap
    /\ dec_alphabet = NullAlphabet
    /\ queue = FreedQueue
    /\ left_node = Nil
    /\ right_node = Nil
    /\ root = Nil
    /\ merges = 0
    /\ enc_i = 0
    /\ enc_status = 0
    /\ code_tree = NullCodeTree
    /\ dm = [capacity |-> 0, start |-> 0, current_idx |-> 0, k |-> 0, pos |-> 0]
    /\ decoded = NullDecoded
    /\ dec_status = 0
    /\ faults = {}
    /\ first_run = [done |-> FALSE, header |-> NullBitMessage,
                    message |-> NullBitMessage]

\* huffman_encode is about to run, or a BitMessage is about to be operated on
InitBuffers == Init \/ InitBits

----------------------------------------------------------------------------
(* huffman_encode *)

\* huffman_encode up to the queue allocation of generate_huffman_tree
EncodeStart ==
    /\ pc = "start"
    /\ IF Len(message) = 0
       THEN /\ enc_status' = 0
            /\ pc' = "encoded"
            /\ UNCHANGED <<alphabet, queue, tree_heap>>
       ELSE LET r == build_alphabet(message, alphabet)
            IN  IF r.status > 0
                THEN /\ alphabet' = NullAlphabet
                     /\ enc_status' = r.status
                     /\ pc' = "encoded"
                     /\ UNCHANGED <<queue, tree_heap>>
                ELSE /\ alphabet' = r.alphabet
                     /\ queue' = NewQueue(r.alphabet.length)
                     /\ tree_heap' = Allocate(tree_heap, QueueBlock)
                     /\ pc' = "fill_queue"
                     /\ UNCHANGED enc_status
    /\ UNCHANGED <<message, charSigned, first_run, fill, left_node, right_node, root, code_buffer,
                   merges, encoded, enc_i, dec_alphabet, code_tree, dm, decoded, dec_status,
                   faults>>

\* one iteration of the first loop of generate_huffman_tree
AppendLeaf ==
    /\ pc = "fill_queue"
    /\ LET i    == queue.count + 1
           node == create_huffman_node(alphabet.chars[i], i)
       IN  /\ queue' = append_huffman_queue(queue, node)
           /\ tree_heap' = Allocate(tree_heap, NodeBlock(node))
           /\ pc' = IF i = alphabet.length THEN "merge" ELSE "fill_queue"
    /\ UNCHANGED <<message, charSigned, first_run, fill, alphabet, left_node, right_node, root,
                   code_buffer, merges, encoded, enc_i, enc_status, dec_alphabet, code_tree,
                   dm, decoded, dec_status, faults>>

PopLeft ==
    /\ pc = "merge"
    /\ queue.count > 1
    /\ LET r == pop_min_freq_huffman_queue(queue)
       IN  /\ left_node' = r.min_node
           /\ queue' = r.queue
    /\ pc' = "pop_right"
    /\ UNCHANGED <<message, charSigned, first_run, tree_heap, fill, alphabet, right_node, root, code_buffer,
                   merges, encoded, enc_i, enc_status, dec_alphabet, code_tree, dm, decoded,
                   dec_status, faults>>

PopRight ==
    /\ pc = "pop_right"
    /\ LET r == pop_min_freq_huffman_queue(queue)
       IN  /\ right_node' = r.min_node
           /\ queue' = r.queue
    /\ pc' = "parent"
    /\ UNCHANGED <<message, charSigned, first_run, tree_heap, fill, alphabet, left_node, root, code_buffer,
                   merges, encoded, enc_i, enc_status, dec_alphabet, code_tree, dm, decoded,
                   dec_status, faults>>

AppendParent ==
    /\ pc = "parent"
    /\ LET parent_node == create_parent_huffman_node(left_node, right_node)
       IN  /\ queue' = append_huffman_queue(queue, parent_node)
           /\ tree_heap' = Allocate(Allocate(tree_heap, NodeBlock(parent_node)),
                                    DataBlock(parent_node))
    /\ merges' = merges + 1
    /\ pc' = "merge"
    /\ UNCHANGED <<message, charSigned, first_run, fill, alphabet, left_node, right_node, root,
                   code_buffer, encoded, enc_i, enc_status, dec_alphabet, code_tree, dm,
                   decoded, dec_status, faults>>

\* the last pop of generate_huffman_tree and free_huffman_queue
PopRoot ==
    /\ pc = "merge"
    /\ queue.count <= 1
    /\ root' = pop_min_freq_huffman_queue(queue).min_node
    /\ queue' = FreedQueue
    /\ tree_heap' = free_huffman_queue(tree_heap)
    /\ pc' = "gen_code"
    /\ UNCHANGED <<message, charSigned, first_run, fill, alphabet, left_node, right_node,
                   code_buffer, merges, encoded, enc_i, enc_status, dec_alphabet, code_tree,
                   dm, decoded, dec_status, faults>>

\* calloc of the queue returns NULL: generate_huffman_tree returns before any
\* node exists, huffman_encode frees the alphabet and returns the status
QueueAllocFail ==
    /\ pc = "start"
    /\ Len(message) > 0
    /\ build_alphabet(message, alphabet).status = 0
    /\ alphabet' = NullAlphabet
    /\ enc_status' = STATUS_CODE_ALLOC_FAIL
    /\ pc' = "encoded"
    /\ UNCHANGED <<message, charSigned, first_run, tree_heap, fill, queue, left_node,
                   right_node, root, code_buffer, merges, encoded, enc_i, dec_alphabet,
                   code_tree, dm, decoded, dec_status, faults>>

\* The failure path of generate_huffman_tree from heap, the memory at the
\* failed allocation: free_huffman_queue_and_content(&queue), return status,
\* and huffman_encode frees the alphabet and returns it.  A second free of a
\* block is undefined: the allocator aborts the process there, or the walk
\* goes on.
TreeAllocFail(heap) ==
    LET released == free_huffman_queue_and_content(queue, heap)
        twice    == FirstDoubleFree(released.freed)
    IN  \E abort \in (IF twice > 0 THEN BOOLEAN ELSE {FALSE}) :
            /\ faults' = IF twice > 0 THEN faults \cup {"double_free"} ELSE faults
            /\ IF abort
               THEN /\ tree_heap' = [released EXCEPT !.freed = SubSeq(@, 1, twice)]
                    /\ pc' = "crashed"
                    /\ UNCHANGED <<queue, alphabet, enc_status>>
               ELSE /\ tree_heap' = released
                    /\ queue' = FreedQueue
                    /\ alphabet' = NullAlphabet
                    /\ enc_status' = STATUS_CODE_ALLOC_FAIL
                    /\ pc' = "encoded"

\* malloc of create_huffman_node returns NULL in the first loop
LeafAllocFail ==
    /\ pc = "fill_queue"
    /\ TreeAllocFail(tree_heap)
    /\ UNCHANGED <<message, charSigned, first_run, fill, left_node, right_node, root,
                   code_buffer, merges, encoded, enc_i, dec_alphabet, code_tree, dm,
                   decoded, dec_status>>

\* the first malloc of create_parent_huffman_node returns NULL
ParentAllocFail ==
    /\ pc = "parent"
    /\ TreeAllocFail(tree_heap)
    /\ UNCHANGED <<message, charSigned, first_run, fill, left_node, right_node, root,
                   code_buffer, merges, encoded, enc_i, dec_alphabet, code_tree, dm,
                   decoded, dec_status>>

\* the second malloc of create_parent_huffman_node returns NULL: *parent is
\* allocated, its data is NULL and its children are not yet assigned
ParentDataAllocFail ==
    /\ pc = "parent"
    /\ TreeAllocFail(Allocate(tree_heap,
           NodeBlock(create_parent_huffman_node(left_node, right_node))))
    /\ UNCHANGED <<message, charSigned, first_run, fill, left_node, right_node, root,
                   code_buffer, merges, encoded, enc_i, dec_alphabet, code_tree, dm,
                   decoded, dec_status>>

\* generate_huffman_code: the traversal of the tree with the code buffer
GenerateCode ==
    /\ pc = "gen_code"
    /\ LET st == _generate_huffman_code(root,
                     [chars |-> alphabet.chars,
                      buf   |-> [data   |-> Malloc(alphabet.length + 1),
                                 nbits  |-> 0,
                                 nbytes |-> 0]])
       IN  /\ alphabet' = [alphabet EXCEPT !.chars = st.chars]
           /\ code_buffer' = st.buf
    /\ pc' = "canonical"
    /\ UNCHANGED <<message, charSigned, first_run, tree_heap, fill, queue, left_node, right_node, root,
                   merges, encoded, enc_i, enc_status, dec_alphabet, code_tree, dm, decoded,
                   dec_status, faults>>

\* generate_huffman_code: the tree and the buffer are freed, the alphabet is
\* sorted by code length and made canonical
Canonicalize ==
    /\ pc = "canonical"
    /\ tree_heap' = free_huffman_node(root, tree_heap)
    /\ root' = Nil
    /\ left_node' = Nil
    /\ right_node' = Nil
    /\ code_buffer' = NullBitMessage
    /\ alphabet' = [alphabet EXCEPT !.chars =
                       transform_to_canonical_code(
                           qsort("alphabet_nbits_comparator", alphabet.chars))]
    /\ pc' = "enc_header"
    /\ UNCHANGED <<message, charSigned, first_run, fill, queue, merges, encoded, enc_i, enc_status,
                   dec_alphabet, code_tree, dm, decoded, dec_status, faults>>

EncodeAlphabet ==
    /\ pc = "enc_header"
    /\ encoded' = [encoded EXCEPT !.header = huffman_encode_alphabet(alphabet)]
    /\ pc' = "enc_message"
    /\ UNCHANGED <<message, charSigned, first_run, tree_heap, fill, alphabet, queue, left_node, right_node,
                   root, code_buffer, merges, enc_i, enc_status, dec_alphabet, code_tree, dm,
                   decoded, dec_status, faults>>

\* huffman_encode_message up to its encoding loop.  An index of
\* lookup_alphabet outside the table is billions of entries away from it: the
\* access faults and the process is killed.
EncodeMessageInit ==
    /\ pc = "enc_message"
    /\ IF LookupOutOfBounds(message, alphabet.chars)
       THEN /\ faults' = faults \cup {"lookup_index"}
            /\ pc' = "crashed"
            /\ UNCHANGED <<encoded, enc_i>>
       ELSE /\ encoded' = [encoded EXCEPT !.message = NewPayload(message, alphabet)]
            /\ enc_i' = 0
            /\ pc' = "enc_loop"
            /\ UNCHANGED faults
    /\ UNCHANGED <<message, charSigned, first_run, tree_heap, fill, alphabet, queue, left_node, right_node,
                   root, code_buffer, merges, enc_status, dec_alphabet, code_tree, dm,
                   decoded, dec_status>>

\* one iteration of the encoding loop of huffman_encode_message
EncodeMessageChar ==
    /\ pc = "enc_loop"
    /\ enc_i < Len(message)
    /\ encoded' = [encoded EXCEPT !.message =
                      EncodeChar(alphabet.chars, message[enc_i + 1], encoded.message)]
    /\ enc_i' = enc_i + 1
    /\ UNCHANGED <<message, charSigned, first_run, tree_heap, fill, pc, alphabet, queue, left_node,
                   right_node, root, code_buffer, merges, enc_status, dec_alphabet,
                   code_tree, dm, decoded, dec_status, faults>>

\* huffman_encode_message returns 0, huffman_encode frees the alphabet and returns 0
EncodeReturn ==
    /\ pc = "enc_loop"
    /\ enc_i >= Len(message)
    /\ alphabet' = NullAlphabet
    /\ enc_status' = 0
    /\ pc' = "encoded"
    /\ UNCHANGED <<message, charSigned, first_run, tree_heap, fill, queue, left_node, right_node, root,
                   code_buffer, merges, encoded, enc_i, dec_alphabet, code_tree, dm,
                   decoded, dec_status, faults>>

\* the caller keeps the EncodedMessage of a run that returned and calls
\* huffman_encode on the same message again with a fresh, empty EncodedMessage;
\* the heap may hold other garbage by then
EncodeAgain ==
    /\ pc = "encoded"
    /\ ~first_run.done
    /\ first_run' = [done |-> TRUE, header |-> encoded.header,
                     message |-> encoded.message]
    /\ encoded' = [header |-> NullBitMessage, message |-> NullBitMessage]
    /\ fill' \in {0, 255}
    /\ merges' = 0
    /\ enc_i' = 0
    /\ tree_heap' = EmptyHeap
    /\ pc' = "start"
    /\ UNCHANGED <<message, charSigned, alphabet, queue, left_node, right_node, root,
                   code_buffer, enc_status, dec_alphabet, code_tree, dm, decoded,
                   dec_status, faults>>

----------------------------------------------------------------------------
(* huffman_decode *)

DecodeAlphabet ==
    /\ pc = "encoded"
    /\ LET r == huffman_decode_alphabet(encoded.header, dec_alphabet)
       IN  /\ dec_alphabet' = r.alphabet
           /\ faults' = IF r.oob THEN faults \cup {"header_read"} ELSE faults
           /\ IF r.status > 0
              THEN dec_status' = r.status /\ pc' = "decoded"
              ELSE UNCHANGED dec_status /\ pc' = "dec_tree"
    /\ UNCHANGED <<message, charSigned, first_run, tree_heap, fill, alphabet, queue, left_node, right_node,
                   root, code_buffer, merges, encoded, enc_i, enc_status, code_tree, dm,
                   decoded>>

CreateCodeTree ==
    /\ pc = "dec_tree"
    /\ code_tree' = create_alphabet_code_tree(dec_alphabet)
    /\ pc' = "dm_init"
    /\ UNCHANGED <<message, charSigned, first_run, tree_heap, fill, alphabet, queue, left_node, right_node,
                   root, code_buffer, merges, encoded, enc_i, enc_status, dec_alphabet, dm,
                   decoded, dec_status, faults>>

\* huffman_decode_message up to its outer loop.  malloc(0) returns a pointer
\* to an allocation of no bytes.  When *decoded_message is not NULL,
\* huffman_decode_message returns at once and huffman_decode, seeing a status
\* > 0 and a non-NULL pointer, frees that buffer and sets the pointer to NULL.
DecodeMessageInit ==
    /\ pc = "dm_init"
    /\ IF ~decoded.null
       THEN /\ dec_status' = STATUS_CODE_DECODED_MESSAGE_NOT_EMPTY
            /\ pc' = "decoded"
            /\ dec_alphabet' = NullAlphabet
            /\ code_tree' = NullCodeTree
            /\ decoded' = NullDecoded
            /\ UNCHANGED dm
       ELSE LET capacity == IF code_tree.min_nbits > 0
                            THEN encoded.message.nbits \div code_tree.min_nbits
                            ELSE 0
            IN  /\ decoded' = [data |-> Malloc(capacity), capacity |-> capacity,
                               null |-> FALSE]
                /\ dm' = [capacity |-> capacity, start |-> 0, current_idx |-> 0,
                          k |-> 0, pos |-> 0]
                /\ pc' = "dm_outer"
                /\ UNCHANGED <<dec_status, dec_alphabet, code_tree>>
    /\ UNCHANGED <<message, charSigned, first_run, tree_heap, fill, alphabet, queue, left_node, right_node,
                   root, code_buffer, merges, encoded, enc_i, enc_status, faults>>

\* the outer loop's test holds: the search for the next character starts
BeginSearch ==
    /\ pc = "dm_outer"
    /\ dm.start < encoded.message.nbits
    /\ dm' = [dm EXCEPT !.k = 0, !.pos = 0]
    /\ pc' = "dm_walk"
    /\ UNCHANGED <<message, charSigned, first_run, tree_heap, fill, alphabet, queue, left_node, right_node,
                   root, code_buffer, merges, encoded, enc_i, enc_status, dec_alphabet,
                   code_tree, decoded, dec_status, faults>>

\* tree[pos] == NULL && pos < length, evaluated left to right: the slot is
\* read before pos is compared with the length
WalkTest == ReadSlot(code_tree, dm.pos) = 0 /\ dm.pos < code_tree.length

WalkFaults ==
    IF dm.pos >= code_tree.length THEN {"tree_read"} ELSE {}

\* one iteration of the inner loop: one payload bit is read
WalkStep ==
    /\ pc = "dm_walk"
    /\ WalkTest
    /\ dm' = [dm EXCEPT
                !.pos = 2 * dm.pos + 1
                        + get_bit_message_value(encoded.message, dm.start + dm.k),
                !.k = dm.k + 1]
    /\ faults' = faults \cup WalkFaults
                 \cup (IF dm.start + dm.k >= encoded.message.nbits
                       THEN {"payload_read"} ELSE {})
    /\ UNCHANGED <<message, charSigned, first_run, tree_heap, fill, pc, alphabet, queue, left_node,
                   right_node, root, code_buffer, merges, encoded, enc_i, enc_status,
                   dec_alphabet, code_tree, decoded, dec_status>>

\* the inner loop's test fails
WalkExit ==
    /\ pc = "dm_walk"
    /\ ~WalkTest
    /\ faults' = faults \cup WalkFaults
    /\ pc' = "dm_emit"
    /\ UNCHANGED <<message, charSigned, first_run, tree_heap, fill, alphabet, queue, left_node, right_node,
                   root, code_buffer, merges, encoded, enc_i, enc_status, dec_alphabet,
                   code_tree, dm, decoded, dec_status>>

\* the rest of the outer loop's body: char_code = tree[pos], the character is
\* stored or the decoding fails, and the buffer grows when it is full.
\* A wild char_code is dereferenced and the process is killed.  realloc to 0
\* bytes either frees the buffer and returns NULL, and the buffer is then
\* freed again (glibc), or returns an allocation of no bytes.
Emit ==
    /\ pc = "dm_emit"
    /\ LET slot == ReadSlot(code_tree, dm.pos)
           oob  == WalkFaults
       IN  IF slot > 0
           THEN LET char_code   == dec_alphabet.chars[slot]
                    current_idx == dm.current_idx + 1
                    written     == WriteDecoded(decoded, dm.current_idx, char_code.c)
                    wfault      == IF dm.current_idx >= dm.capacity
                                   THEN {"decoded_write"} ELSE {}
                    grow        == current_idx >= dm.capacity
                    capacity    == IF grow THEN 2 * dm.capacity ELSE dm.capacity
                IN  IF grow /\ capacity = 0
                    THEN \/ /\ faults' = faults \cup oob \cup wfault \cup {"double_free"}
                            /\ pc' = "crashed"
                            /\ decoded' = NullDecoded
                            /\ UNCHANGED <<dm, dec_status, dec_alphabet, code_tree>>
                         \/ /\ faults' = faults \cup oob \cup wfault
                            /\ decoded' = written
                            /\ dm' = [dm EXCEPT !.start = dm.start + char_code.code.nbits,
                                                !.current_idx = current_idx]
                            /\ pc' = "dm_outer"
                            /\ UNCHANGED <<dec_status, dec_alphabet, code_tree>>
                    ELSE /\ faults' = faults \cup oob \cup wfault
                         /\ decoded' = IF grow THEN ReallocDecoded(written, capacity)
                                               ELSE written
                         /\ dm' = [dm EXCEPT !.start = dm.start + char_code.code.nbits,
                                             !.current_idx = current_idx,
                                             !.capacity = capacity]
                         /\ pc' = "dm_outer"
                         /\ UNCHANGED <<dec_status, dec_alphabet, code_tree>>
           ELSE IF slot = 0
           THEN /\ faults' = faults \cup oob
                /\ dec_status' = STATUS_CODE_HEADER_CORRUPT
                /\ decoded' = NullDecoded
                /\ dec_alphabet' = NullAlphabet
                /\ code_tree' = NullCodeTree
                /\ pc' = "decoded"
                /\ UNCHANGED dm
           ELSE /\ faults' = faults \cup oob \cup {"wild_pointer"}
                /\ pc' = "crashed"
                /\ UNCHANGED <<dm, decoded, dec_status, dec_alphabet, code_tree>>
    /\ UNCHANGED <<message, charSigned, first_run, tree_heap, fill, alphabet, queue, left_node, right_node,
                   root, code_buffer, merges, encoded, enc_i, enc_status>>

\* the outer loop's test fails: the terminator is written and huffman_decode
\* returns 0
Finish ==
    /\ pc = "dm_outer"
    /\ dm.start >= encoded.message.nbits
    /\ decoded' = WriteDecoded(decoded, dm.current_idx, 0)
    /\ faults' = IF dm.current_idx >= dm.capacity
                 THEN faults \cup {"decoded_write"} ELSE faults
    /\ dec_status' = 0
    /\ dec_alphabet' = NullAlphabet
    /\ code_tree' = NullCodeTree
    /\ pc' = "decoded"
    /\ UNCHANGED <<message, charSigned, first_run, tree_heap, fill, alphabet, queue, left_node, right_node,
                   root, code_buffer, merges, encoded, enc_i, enc_status, dm>>

----------------------------------------------------------------------------
(* The alphabet builders called on their own *)

\* build_alphabet(message, &alphabet)
BuildAlphabetCall ==
    /\ pc = "guard"
    /\ LET r == build_alphabet(message, alphabet)
       IN  /\ alphabet' = r.alphabet
           /\ enc_status' = r.status
    /\ pc' = "build_alphabet_returned"
    /\ UNCHANGED <<message, charSigned, first_run, tree_heap, fill, queue, left_node, right_node,
                   root, code_buffer, merges, encoded, enc_i, dec_alphabet, code_tree,
                   dm, decoded, dec_status, faults>>

\* huffman_decode_alphabet(&encoded, &dec_alphabet)
DecodeAlphabetCall ==
    /\ pc = "guard"
    /\ LET r == huffman_decode_alphabet(encoded.header, dec_alphabet)
       IN  /\ dec_alphabet' = r.alphabet
           /\ dec_status' = r.status
           /\ faults' = IF r.oob THEN faults \cup {"header_read"} ELSE faults
    /\ pc' = "huffman_decode_alphabet_returned"
    /\ UNCHANGED <<message, charSigned, first_run, tree_heap, fill, alphabet, queue, left_node,
                   right_node, root, code_buffer, merges, encoded, enc_i, enc_status,
                   code_tree, dm, decoded>>

\* huffman_decode_alphabet(&encoded, &dec_alphabet) called on the header that
\* huffman_encode_alphabet has just written, while the encoder's alphabet is
\* still live
DecodeAlphabetOfHeader ==
    /\ pc = "enc_message"
    /\ LET r == huffman_decode_alphabet(encoded.header, dec_alphabet)
       IN  /\ dec_alphabet' = r.alphabet
           /\ dec_status' = r.status
           /\ faults' = IF r.oob THEN faults \cup {"header_read"} ELSE faults
    /\ pc' = "header_decoded"
    /\ UNCHANGED <<message, charSigned, first_run, tree_heap, fill, alphabet, queue, left_node,
                   right_node, root, code_buffer, merges, encoded, enc_i, enc_status,
                   code_tree, dm, decoded>>

\* add_one_bit_message_value(&code_buffer, value), while the allocation has room
AddBit ==
    /\ pc = "bits"
    /\ code_buffer.nbits < MaxBufferBits
    /\ \E value \in {0, 1} : code_buffer' = add_one_bit_message_value(code_buffer, value)
    /\ UNCHANGED <<message, charSigned, first_run, tree_heap, fill, pc, alphabet, queue,
                   left_node, right_node, root, merges, encoded, enc_i, enc_status,
                   dec_alphabet, code_tree, dm, decoded, dec_status, faults>>

\* remove_one_bit_message_value(&code_buffer), called with nbits > 0 only
RemoveBit ==
    /\ pc = "bits"
    /\ code_buffer.nbits > 0
    /\ code_buffer' = remove_one_bit_message_value(code_buffer)
    /\ UNCHANGED <<message, charSigned, first_run, tree_heap, fill, pc, alphabet, queue,
                   left_node, right_node, root, merges, encoded, enc_i, enc_status,
                   dec_alphabet, code_tree, dm, decoded, dec_status, faults>>

\* copy_bit_message(&alphabet.chars[0].code, &code_buffer); the destination
\* must be empty, so this is the last operation of the sequence
CopyBits ==
    /\ pc = "bits"
    /\ alphabet' = [alphabet EXCEPT !.chars[1].code = copy_bit_message(code_buffer)]
    /\ pc' = "bits_copied"
    /\ UNCHANGED <<message, charSigned, first_run, tree_heap, fill, queue, left_node,
                   right_node, root, code_buffer, merges, encoded, enc_i, enc_status,
                   dec_alphabet, code_tree, dm, decoded, dec_status, faults>>

----------------------------------------------------------------------------
(* Specifications *)

NextEncode ==
    \/ EncodeStart
    \/ AppendLeaf
    \/ PopLeft
    \/ PopRight
    \/ AppendParent
    \/ PopRoot
    \/ GenerateCode
    \/ Canonicalize
    \/ EncodeAlphabet
    \/ EncodeMessageInit
    \/ EncodeMessageChar
    \/ EncodeReturn

NextDecode ==
    \/ DecodeAlphabet
    \/ CreateCodeTree
    \/ DecodeMessageInit
    \/ BeginSearch
    \/ WalkStep
    \/ WalkExit
    \/ Emit
    \/ Finish

\* encode then decode
Next == NextEncode \/ NextDecode

\* encode, then the decoder's alphabet and code tree
NextCode == NextEncode \/ DecodeAlphabet \/ CreateCodeTree

\* the tree build and the code generation of huffman_encode
NextTree ==
    \/ EncodeStart
    \/ AppendLeaf
    \/ PopLeft
    \/ PopRight
    \/ AppendParent
    \/ PopRoot
    \/ GenerateCode

\* the tree build where any allocation of generate_huffman_tree may fail
NextAlloc ==
    \/ NextTree
    \/ Canonicalize
    \/ QueueAllocFail
    \/ LeafAllocFail
    \/ ParentAllocFail
    \/ ParentDataAllocFail

\* the encoder up to the header, then the decoder's alphabet from that header
NextHeader == NextTree \/ Canonicalize \/ EncodeAlphabet \/ DecodeAlphabetOfHeader

\* encode then decode, or any sequence of BitMessage operations
NextBuffers == Next \/ AddBit \/ RemoveBit \/ CopyBits

\* huffman_encode called twice on the same message
NextTwice == NextEncode \/ EncodeAgain

\* one call of build_alphabet or of huffman_decode_alphabet
NextGuard == BuildAlphabetCall \/ DecodeAlphabetCall

\* huffman_encode followed by huffman_decode, on every message of up to MaxLen bytes
Spec == Init /\ [][Next]_vars

\* the code and the header of messages with up to MaxCodeSyms distinct symbols
SpecCode == InitCode /\ [][NextCode]_vars

\* the Huffman tree and the codes of messages with up to MaxSyms distinct symbols
SpecTree == InitTree /\ [][NextTree]_vars

\* the tree build under allocation failures, on messages with up to MaxCodeSyms
\* distinct symbols
SpecAlloc == InitCode /\ [][NextAlloc]_vars

\* the header codec on the alphabets of messages with up to MaxGapSyms distinct
\* symbols
SpecHeader == InitHeader /\ [][NextHeader]_vars

\* every buffer of an encode and a decode, and every sequence of additions,
\* removals and a copy on a BitMessage of up to MaxBufferBits bits
SpecBuffers == InitBuffers /\ [][NextBuffers]_vars

\* huffman_decode with an output pointer that may already be populated
SpecDecodeInto == InitDecodeInto /\ [][NextDecode]_vars

\* two runs of huffman_encode on every message of up to MaxLen bytes
SpecTwice == Init /\ [][NextTwice]_vars

\* build_alphabet and huffman_decode_alphabet handed an empty or a populated
\* alphabet
SpecGuard == InitGuard /\ [][NextGuard]_vars

\* huffman_decode on arbitrary headers and payloads
SpecDecode == InitDecode /\ [][NextDecode]_vars

\* the program is single threaded and runs to completion: a step that can be
\* taken is taken
SpecDecodeFair == SpecDecode /\ WF_vars(NextDecode)

----------------------------------------------------------------------------
(* Properties *)

\* C1 (round trip): huffman_encode followed by huffman_decode runs to the
\* end for every message, both return 0, and the decoded string is the
\* message (the empty message and a message of one repeated byte included)
RoundTrip ==
    /\ pc # "crashed"
    /\ pc = "decoded" => /\ enc_status = 0
                         /\ dec_status = 0
                         /\ CString(decoded.data) = message

\* C2 (corruption detection): huffman_decode_message never reads a payload
\* bit at a position >= nbits nor a tree slot at an index >= length, and it
\* returns 0 only when the codes it resolved end exactly where the payload
\* ends; a search that runs out of bits or out of the tree ends in
\* STATUS_CODE_HEADER_CORRUPT
CorruptionDetected ==
    /\ "payload_read" \notin faults
    /\ "tree_read" \notin faults
    /\ (pc = "decoded" /\ dm.start # encoded.message.nbits)
           => dec_status = STATUS_CODE_HEADER_CORRUPT

\* nbytes = L + 1 + count[1] + ... + count[L] with L = byte[0], every byte
\* of the sum being a byte of the header; the empty header is the header of
\* the empty message
HeaderConsistent(header) ==
    \/ header.nbytes = 0
    \/ /\ ReadByte(header.data, 0) + 1 <= header.nbytes
       /\ header.nbytes = ReadByte(header.data, 0) + 1
                          + SumCounts(header, ReadByte(header.data, 0))

\* C3 (header validation): huffman_decode_alphabet never reads a header byte
\* at an index >= nbytes, and it returns 0 (the decoding goes on to the code
\* tree) only for a header whose counts are consistent with its nbytes
HeaderValidated ==
    /\ "header_read" \notin faults
    /\ pc \in {"dec_tree", "dm_init", "dm_outer", "dm_walk", "dm_emit"}
           => HeaderConsistent(encoded.header)

\* C4 (decode termination): on every header and payload huffman_decode is
\* either still running or has returned; it never ends without returning
DecodeReturns == pc = "decoded" \/ ENABLED NextDecode

\* the loops of huffman_decode_message end: a run that is not starved of
\* steps reaches the return of huffman_decode or the death of the process
DecodeEnds == <>(pc \in {"decoded", "crashed"})

\* sum of freq * code length over the alphabet
RECURSIVE WeightedLength(_)
WeightedLength(chars) ==
    IF chars = <<>> THEN 0
    ELSE chars[1].freq * chars[1].code.nbits + WeightedLength(Tail(chars))

\* the weights s (ascending) with w inserted
RECURSIVE InsertWeight(_, _)
InsertWeight(s, w) ==
    IF s = <<>> THEN <<w>>
    ELSE IF w <= s[1] THEN <<w>> \o s
    ELSE <<s[1]>> \o InsertWeight(Tail(s), w)

RECURSIVE SortedWeights(_)
SortedWeights(chars) ==
    IF chars = <<>> THEN <<>>
    ELSE InsertWeight(SortedWeights(Tail(chars)), chars[1].freq)

\* the weighted length of the textbook Huffman construction on the weights s
\* (ascending): the two smallest weights are merged until one is left, and
\* every merge adds its weight to the total
RECURSIVE ReferenceCost(_)
ReferenceCost(s) ==
    IF Len(s) <= 1 THEN 0
    ELSE (s[1] + s[2])
         + ReferenceCost(InsertWeight(SubSeq(s, 3, Len(s)), s[1] + s[2]))

\* C5 (optimality): for a message of two or more distinct symbols the code
\* lengths generated from the tree give the weighted length of a reference
\* Huffman construction on the same frequencies
Optimality ==
    (pc = "canonical" /\ alphabet.length >= 2)
        => WeightedLength(alphabet.chars) = ReferenceCost(SortedWeights(alphabet.chars))

SameBits(a, b) ==
    a.nbits = b.nbits /\ display_bit_message(a) = display_bit_message(b)

\* C6 (determinism): a second run of huffman_encode on the same message,
\* whatever garbage the heap holds then, returns a header and a payload with
\* the same nbits and the same bit values as the first run
Determinism ==
    (pc = "encoded" /\ first_run.done)
        => /\ SameBits(encoded.header, first_run.header)
           /\ SameBits(encoded.message, first_run.message)

\* two runs have returned whose payload buffers differ beyond the payload's bits
DeterminismWitness ==
    /\ pc = "encoded"
    /\ first_run.done
    /\ Len(message) >= 2
    /\ encoded.message.data # first_run.message.data

IsPrefix(a, b) ==
    /\ a.nbits <= b.nbits
    /\ \A k \in 0 .. (a.nbits - 1) :
          get_bit_message_value(a, k) = get_bit_message_value(b, k)

PrefixFreeAlphabet(chars) ==
    \A i, j \in DOMAIN chars : i # j => ~IsPrefix(chars[i].code, chars[j].code)

\* C7 (prefix free): no code of the canonical alphabet of the encoder is a
\* prefix of the code of another symbol, and the same holds for the alphabet
\* the decoder rebuilds from the header
PrefixFree ==
    /\ pc \in {"enc_header", "enc_message", "enc_loop"}
           => PrefixFreeAlphabet(alphabet.chars)
    /\ pc \in {"dec_tree", "dm_init"} => PrefixFreeAlphabet(dec_alphabet.chars)

\* the decoder has rebuilt an alphabet of three or more symbols with codes of
\* different lengths
PrefixFreeWitness ==
    /\ pc = "dm_init"
    /\ dec_alphabet.length >= 3
    /\ dec_alphabet.chars[1].code.nbits < dec_alphabet.chars[3].code.nbits

\* the code read as a binary number, first bit most significant
RECURSIVE CodeValue(_, _)
CodeValue(code, j) ==
    IF j = 0 THEN 0
    ELSE 2 * CodeValue(code, j - 1) + get_bit_message_value(code, j - 1)

\* C8 (canonical ordering): of two symbols with codes of the same length the
\* one with the smaller byte value (0..255) has the smaller code, and the
\* codes of one length are consecutive integers in that order
CanonicalOrder ==
    pc \in {"enc_header", "enc_message", "enc_loop"}
        => \A i, j \in DOMAIN alphabet.chars :
              (i < j /\ alphabet.chars[i].code.nbits = alphabet.chars[j].code.nbits)
                  => /\ alphabet.chars[i].c < alphabet.chars[j].c
                     /\ CodeValue(alphabet.chars[j].code, alphabet.chars[j].code.nbits)
                        = CodeValue(alphabet.chars[i].code, alphabet.chars[i].code.nbits)
                          + (j - i)

\* N: the distinct bytes of the message
MessageSymbols == {message[i] : i \in DOMAIN message}

\* L: the longest code length of the alphabet
MaxCodeLength ==
    CHOOSE n \in {alphabet.chars[i].code.nbits : i \in DOMAIN alphabet.chars} :
        \A i \in DOMAIN alphabet.chars : alphabet.chars[i].code.nbits <= n

\* C9 (header minimality): the header of a non-empty message takes exactly
\* L + 1 + N bytes and its nbits is 8 * (L + 1 + N)
HeaderSize ==
    pc \in {"enc_message", "enc_loop"}
        => LET size == MaxCodeLength + 1 + Cardinality(MessageSymbols)
           IN  /\ encoded.header.nbytes = size
               /\ Len(encoded.header.data) = size
               /\ encoded.header.nbits = 8 * size

\* the header of a message of three or more symbols, with L >= 2, is written
HeaderSizeWitness ==
    /\ pc = "enc_loop"
    /\ Cardinality(MessageSymbols) >= 3
    /\ MaxCodeLength >= 2
    /\ encoded.header.nbytes >= 6

\* the code length of byte b
CodeLengthOf(b) ==
    LET i == CHOOSE k \in DOMAIN alphabet.chars : alphabet.chars[k].c = b
    IN  alphabet.chars[i].code.nbits

\* C10 (header layout): byte 0 of the header is L, byte i (1 <= i <= L) is
\* the number of symbols of code length i, and the bytes L+1 .. L+N are the
\* distinct symbols ordered by (code length ascending, byte value ascending)
HeaderLayout ==
    pc \in {"enc_message", "enc_loop"}
        => LET data == encoded.header.data
               L    == MaxCodeLength
               N    == Cardinality(MessageSymbols)
           IN  /\ Len(data) = L + 1 + N
               /\ data[1] = L
               /\ \A i \in 1 .. L :
                     data[i + 1] = Cardinality({b \in MessageSymbols : CodeLengthOf(b) = i})
               /\ {data[L + 1 + k] : k \in 1 .. N} = MessageSymbols
               /\ \A k, m \in 1 .. N :
                     k < m => LET x == data[L + 1 + k]
                                  y == data[L + 1 + m]
                              IN  \/ CodeLengthOf(x) < CodeLengthOf(y)
                                  \/ CodeLengthOf(x) = CodeLengthOf(y) /\ x < y

\* the run is past the return of huffman_encode
EncodeReturned ==
    pc \in {"encoded", "dec_tree", "dm_init", "dm_outer", "dm_walk", "dm_emit", "decoded"}

\* C11 (single symbol): for a message of k >= 1 repetitions of one byte the
\* run is not killed, the sole symbol gets the 1-bit code 0, the payload has
\* exactly k bits, and huffman_decode returns 0 with the message
SingleSymbol ==
    Cardinality(MessageSymbols) = 1
        => /\ pc # "crashed"
           /\ pc \in {"enc_header", "enc_message", "enc_loop"}
                  => /\ alphabet.length = 1
                     /\ display_bit_message(alphabet.chars[1].code) = <<0>>
           /\ EncodeReturned
                  => /\ enc_status = 0
                     /\ encoded.message.nbits = Len(message)
           /\ pc = "decoded"
                  => /\ dec_status = 0
                     /\ CString(decoded.data) = message

\* C12 (empty input): huffman_encode of the empty message returns 0 and
\* leaves the header and the payload empty (no bytes, no bits), and
\* huffman_decode of that pair returns 0 and the empty string
EmptyInput ==
    message = <<>>
        => /\ pc # "crashed"
           /\ EncodeReturned
                  => /\ enc_status = 0
                     /\ encoded.header = NullBitMessage
                     /\ encoded.message = NullBitMessage
           /\ pc = "decoded"
                  => /\ dec_status = 0
                     /\ ~decoded.null
                     /\ CString(decoded.data) = <<>>

\* the empty message has been encoded and decoded
EmptyInputWitness ==
    /\ message = <<>>
    /\ pc = "decoded"
    /\ encoded.header.nbytes = 0

\* C13 (scenario "ab"): the codes are a -> 0 and b -> 1, the header is
\* [1, 2, 'a', 'b'], the payload is the 2 bits 0 1, and the decoding gives "ab"
ScenarioAB ==
    message = <<97, 98>>
        => /\ pc # "crashed"
           /\ pc \in {"enc_header", "enc_message", "enc_loop"}
                  => /\ alphabet.length = 2
                     /\ alphabet.chars[1].c = 97
                     /\ display_bit_message(alphabet.chars[1].code) = <<0>>
                     /\ alphabet.chars[2].c = 98
                     /\ display_bit_message(alphabet.chars[2].code) = <<1>>
           /\ EncodeReturned
                  => /\ enc_status = 0
                     /\ encoded.header.nbytes = 4
                     /\ encoded.header.data = <<1, 2, 97, 98>>
                     /\ display_bit_message(encoded.message) = <<0, 1>>
           /\ pc = "decoded"
                  => /\ dec_status = 0
                     /\ CString(decoded.data) = <<97, 98>>

\* "ab" has been encoded and decoded
ScenarioABWitness ==
    /\ message = <<97, 98>>
    /\ pc = "decoded"
    /\ encoded.message.nbits = 2

\* C14 (idempotency guard): build_alphabet, and likewise
\* huffman_decode_alphabet, called on an alphabet that is already populated
\* returns STATUS_CODE_ALPHABET_NOT_EMPTY and leaves the alphabet as it was
IdempotencyGuard ==
    [][/\ (BuildAlphabetCall /\ alphabet.allocated)
             => /\ enc_status' = STATUS_CODE_ALPHABET_NOT_EMPTY
                /\ alphabet' = alphabet
       /\ (DecodeAlphabetCall /\ dec_alphabet.allocated)
             => /\ dec_status' = STATUS_CODE_ALPHABET_NOT_EMPTY
                /\ dec_alphabet' = dec_alphabet]_vars

\* build_alphabet has refused an alphabet of two entries
IdempotencyGuardWitness ==
    /\ pc = "build_alphabet_returned"
    /\ enc_status = STATUS_CODE_ALPHABET_NOT_EMPTY
    /\ alphabet.length = 2
    /\ Len(message) > 0

\* the queue is live: generate_huffman_tree is between two queue operations
QueueLive == pc \in {"fill_queue", "merge", "pop_right", "parent"}

\* the frequencies of the nodes in the queue
QueuedFreqs == {queue.queue[k].data.freq : k \in 1 .. queue.count}

\* C15 (min-heap): while generate_huffman_tree runs, no queued node has a
\* frequency smaller than its heap parent's, and the node a pop has just
\* returned has a frequency no larger than that of any node left in the queue
MinHeap ==
    /\ QueueLive
           => \A k \in 2 .. queue.count :
                 queue.queue[k \div 2].data.freq <= queue.queue[k].data.freq
    /\ pc = "pop_right" => \A f \in QueuedFreqs : left_node.data.freq <= f
    /\ pc = "parent" => \A f \in QueuedFreqs : right_node.data.freq <= f

IsLeaf(node) == node # Nil /\ node.left = Nil /\ node.right = Nil

\* node was popped as a minimum of the queue, it is an internal node, and a
\* leaf of the same frequency is still queued
InternalBeforeLeaf(node) ==
    /\ ~IsLeaf(node)
    /\ \A f \in QueuedFreqs : node.data.freq <= f
    /\ \E k \in 1 .. queue.count :
          /\ IsLeaf(queue.queue[k])
          /\ queue.queue[k].data.freq = node.data.freq

\* C16 (leaf before internal): when the queue holds a leaf and an internal
\* node of the same minimal frequency, pop_min_freq_huffman_queue returns the
\* leaf first: no pop returns an internal node while a leaf of the same
\* frequency is queued
LeafBeforeInternal ==
    /\ pc = "pop_right" => ~InternalBeforeLeaf(left_node)
    /\ pc = "parent" => ~InternalBeforeLeaf(right_node)

\* node is a leaf that was popped while a leaf of the same frequency and of a
\* lower byte value is still queued
HigherLeafFirst(node) ==
    /\ IsLeaf(node)
    /\ \E k \in 1 .. queue.count :
          /\ IsLeaf(queue.queue[k])
          /\ queue.queue[k].data.freq = node.data.freq
          /\ queue.queue[k].data.c < node.data.c

\* C17 (leaf tie-break): at every point of the tree build, of the queued
\* leaves of one frequency the leaf of the lower byte value is popped first:
\* no pop returns a leaf while a leaf of the same frequency and of a lower
\* byte value is queued
LeafTieBreak ==
    /\ pc = "pop_right" => ~HigherLeafFirst(left_node)
    /\ pc = "parent" => ~HigherLeafFirst(right_node)

\* the bytes of the leaves under node, left to right
RECURSIVE LeafChars(_)
LeafChars(node) ==
    IF node = Nil THEN <<>>
    ELSE IF IsLeaf(node) THEN <<node.data.c>>
    ELSE LeafChars(node.left) \o LeafChars(node.right)

\* every internal node under node has two children and the sum of their
\* frequencies
RECURSIVE SumsOfChildren(_)
SumsOfChildren(node) ==
    \/ IsLeaf(node)
    \/ /\ node.left # Nil
       /\ node.right # Nil
       /\ node.data.freq = node.left.data.freq + node.right.data.freq
       /\ SumsOfChildren(node.left)
       /\ SumsOfChildren(node.right)

\* C18 (tree construction): generate_huffman_tree ends after exactly n - 1
\* merges with one node left, the root; every merge queues an internal node
\* with the first popped node as left child, the second as right child and
\* the sum of their frequencies; every symbol is exactly one leaf of the
\* root, the root's frequency is the length of the message, and for n = 1 the
\* root is the sole leaf
TreeConstruction ==
    /\ (pc = "merge" /\ merges > 0)
           => \E k \in 1 .. queue.count :
                 /\ queue.queue[k].left = left_node
                 /\ queue.queue[k].right = right_node
                 /\ queue.queue[k].data.freq
                    = left_node.data.freq + right_node.data.freq
    /\ pc = "merge" => merges + queue.count = alphabet.length
    /\ pc = "gen_code"
           => /\ merges = alphabet.length - 1
              /\ root # Nil
              /\ SumsOfChildren(root)
              /\ Len(LeafChars(root)) = Cardinality(MessageSymbols)
              /\ {LeafChars(root)[i] : i \in DOMAIN LeafChars(root)} = MessageSymbols
              /\ root.data.freq = Len(message)
              /\ alphabet.length = 1 => IsLeaf(root)

\* a tree of three or more leaves has been built
TreeConstructionWitness ==
    /\ pc = "gen_code"
    /\ merges >= 2
    /\ Len(LeafChars(root)) >= 3

\* the blocks of generate_huffman_tree are all released, each by one free
ReleasedOnce ==
    /\ \A block \in tree_heap.allocated : TimesFreed(tree_heap, block) = 1
    /\ \A i \in DOMAIN tree_heap.freed : tree_heap.freed[i] \in tree_heap.allocated

\* C19: when an allocation of generate_huffman_tree fails (a leaf node, a
\* parent node, the payload of a parent), the call returns STATUS_CODE_ALLOC_FAIL
\* rather than ending the process, and by then every node, every parent payload
\* and the array of the queue allocated so far has been freed exactly once,
\* the nodes already popped from the queue included.
AllocFailCleanup ==
    /\ pc # "crashed"
    /\ enc_status = STATUS_CODE_ALLOC_FAIL => ReleasedOnce

\* the alphabet as build_alphabet returned it to huffman_encode
AlphabetBuilt == pc = "fill_queue"

\* C20: the alphabet returned by build_alphabet is sorted ascending by
\* frequency: for all i < j the entry at index i has a frequency less than or
\* equal to that of the entry at index j.
AlphabetAscending ==
    AlphabetBuilt
        => \A i, j \in 1 .. alphabet.length :
              i < j => alphabet.chars[i].freq <= alphabet.chars[j].freq

\* What qsort with alphabet_freq_comparator produces: the frequencies never
\* increase along the alphabet.
AlphabetDescending ==
    AlphabetBuilt
        => \A i, j \in 1 .. alphabet.length :
              i < j => alphabet.chars[i].freq >= alphabet.chars[j].freq

\* build_alphabet has returned 0, to huffman_encode or to a direct caller
AlphabetReturned ==
    AlphabetBuilt \/ (pc = "build_alphabet_returned" /\ enc_status = 0)

Occurrences(b) == Cardinality({i \in DOMAIN message : message[i] = b})

RECURSIVE SumFreq(_)
SumFreq(chars) ==
    IF chars = <<>> THEN 0 ELSE chars[1].freq + SumFreq(Tail(chars))

\* C21: build_alphabet yields exactly one entry per distinct byte of the
\* input: no byte twice, none missing, length = number of distinct bytes, the
\* frequency of an entry is the number of occurrences of its byte, and the
\* frequencies sum to the length of the input.
AlphabetContent ==
    AlphabetReturned
        => /\ alphabet.length = Cardinality(MessageSymbols)
           /\ Len(alphabet.chars) = alphabet.length
           /\ \A i, j \in 1 .. alphabet.length :
                 i # j => alphabet.chars[i].c # alphabet.chars[j].c
           /\ {alphabet.chars[i].c : i \in 1 .. alphabet.length} = MessageSymbols
           /\ \A i \in 1 .. alphabet.length :
                 alphabet.chars[i].freq = Occurrences(alphabet.chars[i].c)
           /\ SumFreq(alphabet.chars) = Len(message)

\* an alphabet of two bytes, one of them above 127 and occurring twice
AlphabetContentWitness ==
    /\ AlphabetReturned
    /\ alphabet.length = 2
    /\ \E i \in 1 .. 2 : alphabet.chars[i].c = 200 /\ alphabet.chars[i].freq = 2

\* the leaves under node with the edge bits that lead to them from the root:
\* 0 for a left edge, 1 for a right edge
RECURSIVE LeafPaths(_, _)
LeafPaths(node, path) ==
    IF node = Nil THEN {}
    ELSE IF IsLeaf(node) THEN {[idx |-> node.idx, path |-> path]}
    ELSE LeafPaths(node.left, Append(path, 0)) \cup LeafPaths(node.right, Append(path, 1))

\* every leaf's entry holds the bits of its path, as many as its depth
CodesArePaths ==
    \A leaf \in LeafPaths(root, <<>>) :
        /\ alphabet.chars[leaf.idx].code.nbits = Len(leaf.path)
        /\ display_bit_message(alphabet.chars[leaf.idx].code) = leaf.path

\* _generate_huffman_code has returned at the root
CodeGenerated == pc = "canonical"

\* C22 as stated: after the traversal every leaf's entry holds the edge bits
\* of its path from the root (0 left, 1 right), its length is the leaf's depth,
\* and the shared code buffer is back to length 0.
CodeGenerationAnyTree ==
    CodeGenerated => CodesArePaths /\ code_buffer.nbits = 0

\* C22, amended: the statement holds for a tree of two or more leaves; for the
\* tree that is a single leaf (depth 0) the entry holds the one bit 0 and the
\* code buffer is left with that bit.
CodeGeneration ==
    CodeGenerated
        => IF alphabet.length >= 2
           THEN CodesArePaths /\ code_buffer.nbits = 0
           ELSE /\ IsLeaf(root)
                /\ alphabet.chars[root.idx].code.nbits = 1
                /\ display_bit_message(alphabet.chars[root.idx].code) = <<0>>
                /\ code_buffer.nbits = 1

\* a tree with leaves at depth 1 and at depth 3 has been traversed
CodeGenerationWitness ==
    /\ CodeGenerated
    /\ \E a, b \in LeafPaths(root, <<>>) : Len(a.path) = 1 /\ Len(b.path) = 3

\* the code lengths of the encoder's alphabet
CodeLengths == {alphabet.chars[i].code.nbits : i \in 1 .. alphabet.length}

\* C23: huffman_decode_alphabet applied to the header huffman_encode_alphabet
\* wrote for a canonicalized alphabet returns 0 and yields the same entries:
\* the same symbols in the same order, with the same code lengths and the
\* same code bits, also when a code length between the shortest and the
\* longest has no symbol.
HeaderRoundTrip ==
    pc = "header_decoded"
        => /\ dec_status = 0
           /\ dec_alphabet.length = alphabet.length
           /\ Len(dec_alphabet.chars) = Len(alphabet.chars)
           /\ \A i \in 1 .. alphabet.length :
                 /\ dec_alphabet.chars[i].c = alphabet.chars[i].c
                 /\ SameBits(dec_alphabet.chars[i].code, alphabet.chars[i].code)

\* a header was decoded whose code lengths are 1 and 3 and never 2, with a
\* symbol above 127
HeaderRoundTripWitness ==
    /\ pc = "header_decoded"
    /\ CodeLengths = {1, 3}
    /\ \E i \in 1 .. alphabet.length : alphabet.chars[i].c = 200

\* the longest code of the decoder's alphabet, 0 for the empty alphabet
MaxDecodedLength ==
    IF dec_alphabet.length = 0 THEN 0
    ELSE CHOOSE n \in {dec_alphabet.chars[i].code.nbits : i \in 1 .. dec_alphabet.length} :
             \A i \in 1 .. dec_alphabet.length : dec_alphabet.chars[i].code.nbits <= n

\* the slot reached by idx = 2 * idx + 1 + bit over the code of entry i
SlotOf(i) == CodePos(dec_alphabet.chars[i].code, dec_alphabet.chars[i].code.nbits)

\* slot a lies on the path from the root to slot b, a # b
RECURSIVE IsAncestorSlot(_, _)
IsAncestorSlot(a, b) ==
    IF b <= a THEN FALSE
    ELSE LET parent == (b - 1) \div 2
         IN  parent = a \/ IsAncestorSlot(a, parent)

\* C24: for the alphabet reconstructed from a header huffman_encode wrote,
\* create_alphabet_code_tree builds an array of 2^(longest code + 1) - 1 slots;
\* each symbol is stored at the slot its code leads to, which is inside the
\* array; distinct symbols have distinct slots; no populated slot is an
\* ancestor of another; every other slot is empty.
CodeTreeWellFormed ==
    pc = "dm_init"
        => /\ code_tree.length = 2 ^ (MaxDecodedLength + 1) - 1
           /\ Len(code_tree.tree) = code_tree.length
           /\ \A i \in 1 .. dec_alphabet.length :
                 /\ SlotOf(i) < code_tree.length
                 /\ code_tree.tree[SlotOf(i) + 1] = i
           /\ \A i, j \in 1 .. dec_alphabet.length :
                 i # j => /\ SlotOf(i) # SlotOf(j)
                          /\ dec_alphabet.chars[i].c # dec_alphabet.chars[j].c
                          /\ ~IsAncestorSlot(SlotOf(i), SlotOf(j))
           /\ \A k \in 1 .. code_tree.length :
                 code_tree.tree[k] # 0 => \E i \in 1 .. dec_alphabet.length : SlotOf(i) = k - 1

\* a decode tree of 15 slots holding four symbols, two of them at depth 3
CodeTreeWellFormedWitness ==
    /\ pc = "dm_init"
    /\ code_tree.length = 15
    /\ dec_alphabet.length = 4
    /\ Cardinality({k \in 1 .. code_tree.length : code_tree.tree[k] # 0}) = 4

\* C25: in huffman_encode_message the index used to fill and to read the
\* 256-entry lookup table lies in 0 .. 255 for every byte of the input, the
\* bytes 128 .. 255 included, and the entry read is the entry of that byte
\* (the asserts char_code != NULL and char_code->c == c hold).
LookupTable ==
    /\ "lookup_index" \notin faults
    /\ pc = "enc_loop"
          => \A i \in 1 .. Len(message) :
                /\ InLookupTable(LookupIndex(message[i]))
                /\ lookup_alphabet(alphabet.chars, LookupIndex(message[i]).lo) # 0
                /\ alphabet.chars[lookup_alphabet(alphabet.chars,
                                      LookupIndex(message[i]).lo)].c = message[i]

\* the byte add_one_bit_message_value wrote for the last bit of a buffer of
\* nbits > 0 bits: the highest byte index written while the buffer grew to nbits
LastByteWritten(nbits) == (nbits - 1) \div CHAR_BIT

\* C26: every add_one_bit_message_value of an encode writes inside the bytes
\* allocated for its buffer.  The code buffer grew to the length of each code
\* copied from it during the traversal; the payload grows to its final nbits.
AppendInsideStorage ==
    /\ CodeGenerated
          => \A i \in 1 .. alphabet.length :
                /\ alphabet.chars[i].code.nbits > 0
                /\ LastByteWritten(alphabet.chars[i].code.nbits) < Len(code_buffer.data)
    /\ encoded.message.nbits > 0
          => LastByteWritten(encoded.message.nbits) < Len(encoded.message.data)

\* a payload of two or more full bytes has been written
AppendInsideStorageWitness ==
    /\ pc = "encoded"
    /\ encoded.message.nbits >= 2 * CHAR_BIT
    /\ encoded.message.nbits % CHAR_BIT = 0

\* the BitMessages of the state: header, payload, code buffer and the codes of
\* both alphabets
BitMessages ==
    {encoded.header, encoded.message, code_buffer}
        \cup {alphabet.chars[i].code : i \in 1 .. Len(alphabet.chars)}
        \cup {dec_alphabet.chars[i].code : i \in 1 .. Len(dec_alphabet.chars)}

\* C27: after any sequence of add_one_bit_message_value,
\* remove_one_bit_message_value (with nbits > 0) and copy_bit_message, and for
\* every header, code and payload built by encode or decode, nbytes is at
\* least ceil(nbits / 8): bit nbits - 1 lies in the recorded bytes.
SizeInvariant ==
    \A b \in BitMessages : b.nbits <= CHAR_BIT * b.nbytes

\* a buffer of exactly one full byte of bits was copied
SizeInvariantWitness ==
    /\ pc = "bits_copied"
    /\ code_buffer.nbits = CHAR_BIT
    /\ alphabet.chars[1].code.nbits = CHAR_BIT
    /\ alphabet.chars[1].code.nbytes = 2

\* generate_huffman_code has discarded the tree
TreeDiscarded == pc = "enc_header"

FreedOfKind(kind) ==
    {i \in DOMAIN tree_heap.freed : tree_heap.freed[i].kind = kind}

\* C28: free_huffman_node on the tree generate_huffman_tree built, the
\* single-leaf tree included, frees each of the 2n - 1 nodes once and each of
\* the n - 1 parent payloads once, and frees no payload of a leaf: every
\* alphabet entry still has its symbol, its frequency and a code.
TreeTeardown ==
    TreeDiscarded
        => /\ ReleasedOnce
           /\ Cardinality(FreedOfKind("node")) = 2 * alphabet.length - 1
           /\ Cardinality(FreedOfKind("data")) = alphabet.length - 1
           /\ \A i \in FreedOfKind("data") : ~IsLeaf(tree_heap.freed[i].of)
           /\ alphabet.length = Cardinality(MessageSymbols)
           /\ \A i \in 1 .. alphabet.length :
                 /\ alphabet.chars[i].c \in MessageSymbols
                 /\ alphabet.chars[i].freq = Occurrences(alphabet.chars[i].c)
                 /\ alphabet.chars[i].code.nbits > 0
                 /\ Len(alphabet.chars[i].code.data) = alphabet.chars[i].code.nbytes

\* a tree of four leaves and three parents has been discarded
TreeTeardownWitness ==
    /\ TreeDiscarded
    /\ Cardinality(FreedOfKind("node")) = 7
    /\ Cardinality(FreedOfKind("data")) = 3

\* C29: every write of huffman_decode_message to the decoded-message buffer,
\* the emitted symbols and the final terminator, is at an index below the
\* current capacity of the buffer, for the empty payload with the empty
\* alphabet too.
OutputInsideBuffer == "decoded_write" \notin faults

\* C30: huffman_decode called with *decoded_message already populated returns
\* a non-zero status and leaves the caller's buffer as it was: the pointer is
\* unchanged, the buffer neither freed nor overwritten.
DecodeKeepsCallerBuffer ==
    [][(DecodeMessageInit /\ ~decoded.null)
          => /\ dec_status' > 0
             /\ decoded' = decoded]_vars

====
